---- MODULE Spec2Model ----
(***************************************************************************)
(* A model of ObjToSchematic's Renderer (src/unnamed/part_000): the        *)
(* mesh-type watermark, the active display stage, the material-buffer map, *)
(* the chunked voxel and block buffer lists, the grid buffers and the      *)
(* per-frame draw sequence; and of its VoxelMesh, the sparse voxel set     *)
(* with its overlap rule, as the tests of src/unnamed/part_002 use it.     *)
(*                                                                         *)
(* The renderer is one record, `renderer`, whose fields are the private    *)
(* fields of the class.  Every public method is an operator from a         *)
(* renderer record (and the method's arguments) to the renderer record the *)
(* method leaves behind, so that a method calling another one              *)
(* (clearMesh -> setModelToUse) is the composition of the two operators.   *)
(***************************************************************************)
EXTENDS Integers, Sequences, FiniteSets

VARIABLES
    renderer,   \* the fields of the Renderer singleton
    op,         \* the last call made on the renderer, with its arguments
    threw,      \* whether that call raised (a failed ASSERT)
    frame,      \* the GL draw sequence issued by that call (draw() only)
    hist,       \* history of the calls, read by the properties only
    voxelMesh,  \* a VoxelMesh: its parameters and its coordinate -> voxel map
    written     \* the colours addVoxel was given, per coordinate, in order;
                \* read by the properties only

vars == <<renderer, op, threw, frame, hist, voxelMesh, written>>

----------------------------------------------------------------------------
(* enum MeshType *)

None == 0
TriangleMesh == 1
VoxelMesh == 2
BlockMesh == 3

MeshTypes == {None, TriangleMesh, VoxelMesh, BlockMesh}

----------------------------------------------------------------------------
(* Bounds of the model and the inputs the calls are made with. *)

MaxVoxelChunks == 3
MaxBlockChunks == 2
MaxWrites == 4

\* An optional value (`x?: T`, a missing map key): {} is undefined, {v} is v.
Undefined == {}
Some(v) == {v}
Get(o) == CHOOSE v \in o : TRUE

MaterialNames == {"m1", "m2"}

SolidMaterials == {[type |-> "solid", colour |-> "red"]}
TexturedMaterials == {[type |-> "textured", path |-> "a.png"]}
Materials == SolidMaterials \cup TexturedMaterials

\* RenderMeshParams.Output: a mesh of no material, of one, of two, and one
\* whose two buffers carry the same material name.
RenderMeshParams ==
    {[buffers |-> <<>>, dimensions |-> <<2, 3, 4>>],
     [buffers |-> <<[materialName |-> "m1",
                     material |-> [type |-> "solid", colour |-> "red"],
                     buffer |-> 1, numElements |-> 3]>>,
      dimensions |-> <<2, 3, 4>>],
     [buffers |-> <<[materialName |-> "m2",
                     material |-> [type |-> "textured", path |-> "a.png"],
                     buffer |-> 2, numElements |-> 6],
                    [materialName |-> "m1",
                     material |-> [type |-> "solid", colour |-> "red"],
                     buffer |-> 1, numElements |-> 3]>>,
      dimensions |-> <<5, 5, 5>>],
     [buffers |-> <<[materialName |-> "m1",
                     material |-> [type |-> "solid", colour |-> "red"],
                     buffer |-> 1, numElements |-> 3],
                    [materialName |-> "m1",
                     material |-> [type |-> "textured", path |-> "a.png"],
                     buffer |-> 2, numElements |-> 6]>>,
      dimensions |-> <<2, 3, 4>>]}

\* RenderNextVoxelMeshChunkParams.Output: two first chunks and two later
\* chunks, which differ in every field.
RenderNextVoxelMeshChunkParams ==
    {[buffer |-> 1, isFirstChunk |-> TRUE, moreVoxelsToBuffer |-> TRUE,
      voxelSize |-> 1, dimensions |-> <<2, 3, 4>>],
     [buffer |-> 4, isFirstChunk |-> TRUE, moreVoxelsToBuffer |-> FALSE,
      voxelSize |-> 2, dimensions |-> <<3, 3, 3>>],
     [buffer |-> 2, isFirstChunk |-> FALSE, moreVoxelsToBuffer |-> TRUE,
      voxelSize |-> 2, dimensions |-> <<3, 3, 3>>],
     [buffer |-> 3, isFirstChunk |-> FALSE, moreVoxelsToBuffer |-> FALSE,
      voxelSize |-> 1, dimensions |-> <<2, 3, 4>>]}

\* RenderNextBlockMeshChunkParams.Output: a first chunk and a later one,
\* which differ in every field.
RenderNextBlockMeshChunkParams ==
    {[buffer |-> 5, isFirstChunk |-> TRUE,
      atlasTexturePath |-> "atlas.png", atlasSize |-> 16],
     [buffer |-> 6, isFirstChunk |-> FALSE,
      atlasTexturePath |-> "other.png", atlasSize |-> 32]}

\* What draw() reads from ArcballCamera.Get.
Cameras ==
    [alignedX : BOOLEAN, alignedY : BOOLEAN, alignedZ : BOOLEAN,
     isUserRotating : BOOLEAN]

FreeCamera ==
    [alignedX |-> FALSE, alignedY |-> FALSE, alignedZ |-> FALSE,
     isUserRotating |-> FALSE]

----------------------------------------------------------------------------
(* GPU objects: opaque handles that remember what they were made from. *)

CreateBufferInfoFromArrays(arrays) == [bufferInfo |-> arrays]

CreateTexture(src) == [texture |-> src]

GridX(size, spacing) == [axis |-> "x", size |-> size, spacing |-> spacing]
GridY(size, spacing) == [axis |-> "y", size |-> size, spacing |-> spacing]
GridZ(size, spacing) == [axis |-> "z", size |-> size, spacing |-> spacing]

\* Vector3.add(1) followed by Vector3.mulScalar(v, s)
AddOne(v) == <<v[1] + 1, v[2] + 1, v[3] + 1>>
MulScalar(v, s) == <<v[1] * s, v[2] * s, v[3] * s>>

----------------------------------------------------------------------------
(* The material-buffer Map: entries in insertion order, one per key. *)

MapHas(m, name) == \E i \in 1..Len(m) : m[i].materialName = name

MapGet(m, name) == m[CHOOSE i \in 1..Len(m) : m[i].materialName = name]

MapSet(m, name, entry) ==
    IF MapHas(m, name)
    THEN [i \in 1..Len(m) |-> IF m[i].materialName = name THEN entry ELSE m[i]]
    ELSE Append(m, entry)

MapKeys(m) == {m[i].materialName : i \in 1..Len(m)}

\* The material as the renderer stores it (solid: copied; textured: with
\* the GPU texture made from its path).
RenderMaterial(material) ==
    IF material.type = "solid"
    THEN [type |-> "solid", colour |-> material.colour]
    ELSE [type |-> "textured", path |-> material.path,
          texture |-> CreateTexture(material.path)]

----------------------------------------------------------------------------
(* The Renderer: construction and the state mutators. *)

NoGrids == [t \in MeshTypes |-> Undefined]

\* The constructor and the field initialisers.  gridOffset is kept in
\* halves: -1 stands for -0.5.
InitRenderer ==
    [atlasTexture |-> Undefined,
     atlasSize |-> 1,
     meshToUse |-> None,
     voxelSize |-> 1,
     gridOffset |-> <<0, 0, 0>>,
     modelsAvailable |-> 0,
     materialBuffers |-> <<>>,
     voxelBuffer |-> Undefined,
     blockBuffer |-> Undefined,
     gridBuffers |-> [x |-> NoGrids, y |-> NoGrids, z |-> NoGrids],
     gridEnabled |-> FALSE,
     axesEnabled |-> FALSE,
     nightVisionEnabled |-> TRUE,
     lightingAvailable |-> FALSE,
     allVoxelChunks |-> FALSE]

GetModelsAvailable(r) == r.modelsAvailable

GetActiveMeshType(r) == r.meshToUse

IsNightVisionEnabled(r) == r.nightVisionEnabled

\* Lighting is withdrawn without forcing night vision back on.
SetLightingAvailableNoRevert(r, isAvailable) ==
    [r EXCEPT !.lightingAvailable = isAvailable]

SetLightingAvailable(r, isAvailable) ==
    LET r1 == [r EXCEPT !.lightingAvailable = isAvailable]
    IN  IF ~isAvailable THEN [r1 EXCEPT !.nightVisionEnabled = TRUE] ELSE r1

ToggleIsGridEnabled(r) == [r EXCEPT !.gridEnabled = ~r.gridEnabled]

ToggleIsAxesEnabled(r) == [r EXCEPT !.axesEnabled = ~r.axesEnabled]

CanToggleNightVision(r) == r.lightingAvailable

ToggleIsNightVisionEnabled(r) ==
    LET r1 == [r EXCEPT !.nightVisionEnabled = ~r.nightVisionEnabled]
    IN  IF ~r1.lightingAvailable THEN [r1 EXCEPT !.nightVisionEnabled = TRUE] ELSE r1

SetModelToUseUnguarded(r, meshType) == [r EXCEPT !.meshToUse = meshType]

SetModelToUseStrict(r, meshType) ==
    IF r.modelsAvailable > meshType
    THEN [r EXCEPT !.meshToUse = meshType]
    ELSE r

SetModelToUseLowersWatermark(r, meshType) ==
    IF r.modelsAvailable >= meshType
    THEN [r EXCEPT !.meshToUse = meshType, !.modelsAvailable = meshType]
    ELSE r

SetModelToUse(r, meshType) ==
    LET isModelAvailable == r.modelsAvailable >= meshType
    IN  IF isModelAvailable
        THEN [r EXCEPT !.meshToUse = meshType]
        ELSE r

ClearMeshKeepStage(r) ==
    [r EXCEPT !.materialBuffers = <<>>, !.modelsAvailable = 0]

ClearMesh(r) ==
    LET r1 == [r EXCEPT !.materialBuffers = <<>>]
        r2 == [r1 EXCEPT !.modelsAvailable = 0]
    IN  SetModelToUse(r2, None)

RecreatedEntryNewGeometry(oldBuffer, materialName, material) ==
    [buffer |-> CreateBufferInfoFromArrays(0),
     material |-> RenderMaterial(material),
     numElements |-> 0,
     materialName |-> materialName]

\* The entry recreateMaterialBuffer writes: the old geometry under the new
\* material.
RecreatedEntry(oldBuffer, materialName, material) ==
    [buffer |-> oldBuffer.buffer,
     material |-> RenderMaterial(material),
     numElements |-> oldBuffer.numElements,
     materialName |-> materialName]

RecreateMaterialBufferNoAssert(r, materialName, material) ==
    [threw |-> FALSE,
     renderer |->
        [r EXCEPT !.materialBuffers =
            MapSet(@, materialName,
                   IF MapHas(@, materialName)
                   THEN RecreatedEntry(MapGet(@, materialName), materialName, material)
                   ELSE [buffer |-> CreateBufferInfoFromArrays(0),
                         material |-> RenderMaterial(material),
                         numElements |-> 0,
                         materialName |-> materialName])]]

\* ASSERT(oldBuffer !== undefined) raises before anything is written.
RecreateMaterialBuffer(r, materialName, material) ==
    IF ~MapHas(r.materialBuffers, materialName)
    THEN [threw |-> TRUE, renderer |-> r]
    ELSE [threw |-> FALSE,
          renderer |->
            [r EXCEPT !.materialBuffers =
                MapSet(@, materialName,
                       RecreatedEntry(MapGet(@, materialName), materialName, material))]]

\* forEach over the map: every entry of that name gets the new material;
\* no entry of that name, nothing happens.
UpdateMeshMaterialTexture(r, materialName, material) ==
    [r EXCEPT !.materialBuffers =
        [i \in 1..Len(@) |->
            IF @[i].materialName = materialName
            THEN [@[i] EXCEPT !.material = RenderMaterial(material)]
            ELSE @[i]]]

\* The loop of useMesh over params.buffers[1..n], on a fresh Map.
RECURSIVE MeshMaterialBuffers(_, _)
MeshMaterialBuffers(buffers, n) ==
    IF n = 0
    THEN <<>>
    ELSE LET e == buffers[n]
         IN  MapSet(MeshMaterialBuffers(buffers, n - 1), e.materialName,
                    [buffer |-> CreateBufferInfoFromArrays(e.buffer),
                     material |-> RenderMaterial(e.material),
                     numElements |-> e.numElements,
                     materialName |-> e.materialName])

UseMeshKeepOldEntries(r, params) ==
    LET new == MeshMaterialBuffers(params.buffers, Len(params.buffers))
        old == SelectSeq(r.materialBuffers,
                         LAMBDA e : ~MapHas(new, e.materialName))
        r1 == [r EXCEPT !.materialBuffers = old \o new]
        r2 == [r1 EXCEPT !.gridBuffers.x[TriangleMesh] = Some(GridX(params.dimensions, <<>>)),
                         !.gridBuffers.y[TriangleMesh] = Some(GridY(params.dimensions, <<>>)),
                         !.gridBuffers.z[TriangleMesh] = Some(GridZ(params.dimensions, <<>>))]
        r3 == [r2 EXCEPT !.modelsAvailable = 1]
    IN  SetModelToUse(r3, TriangleMesh)

UseMeshKeepWatermark(r, params) ==
    LET r1 == [r EXCEPT !.materialBuffers =
                            MeshMaterialBuffers(params.buffers, Len(params.buffers)),
                        !.gridBuffers.x[TriangleMesh] = Some(GridX(params.dimensions, <<>>)),
                        !.gridBuffers.y[TriangleMesh] = Some(GridY(params.dimensions, <<>>)),
                        !.gridBuffers.z[TriangleMesh] = Some(GridZ(params.dimensions, <<>>))]
        r2 == IF r1.modelsAvailable < 1 THEN [r1 EXCEPT !.modelsAvailable = 1] ELSE r1
    IN  SetModelToUse(r2, TriangleMesh)

UseMesh(r, params) ==
    LET r1 == [r EXCEPT !.materialBuffers =
                            MeshMaterialBuffers(params.buffers, Len(params.buffers))]
        r2 == [r1 EXCEPT !.gridBuffers.x[TriangleMesh] = Some(GridX(params.dimensions, <<>>)),
                         !.gridBuffers.y[TriangleMesh] = Some(GridY(params.dimensions, <<>>)),
                         !.gridBuffers.z[TriangleMesh] = Some(GridZ(params.dimensions, <<>>))]
        r3 == [r2 EXCEPT !.modelsAvailable = 1]
    IN  SetModelToUse(r3, TriangleMesh)

\* The push starts a list when there is none.
PushOrCreate(list, b) ==
    IF list = Undefined THEN Some(<<b>>) ELSE Some(Append(Get(list), b))

\* `list?.push(b)`: nothing when the list is undefined.
Push(list, b) == IF list = Undefined THEN Undefined ELSE Some(Append(Get(list), b))

\* The offset is put on the even dimensions.
GridOffsetOfEven(dimensions) ==
    <<IF dimensions[1] % 2 = 0 THEN -1 ELSE 0,
      IF dimensions[2] % 2 = 0 THEN -1 ELSE 0,
      IF dimensions[3] % 2 = 0 THEN -1 ELSE 0>>

GridOffsetOf(dimensions) ==
    <<IF dimensions[1] % 2 = 0 THEN 0 ELSE -1,
      IF dimensions[2] % 2 = 0 THEN 0 ELSE -1,
      IF dimensions[3] % 2 = 0 THEN 0 ELSE -1>>

\* The body of `if (params.isFirstChunk)` at the end of useVoxelMeshChunk.
VoxelFirstChunkSetup(r, params) ==
    LET voxelSize == r.voxelSize
        size == MulScalar(AddOne(params.dimensions), voxelSize)
        r1 == [r EXCEPT !.gridOffset = GridOffsetOf(params.dimensions)]
        r2 == [r1 EXCEPT !.gridBuffers.x[VoxelMesh] = Some(GridX(size, <<voxelSize>>)),
                         !.gridBuffers.y[VoxelMesh] = Some(GridY(size, <<voxelSize>>)),
                         !.gridBuffers.z[VoxelMesh] = Some(GridZ(size, <<voxelSize>>))]
        r3 == [r2 EXCEPT !.modelsAvailable = 2]
    IN  SetModelToUse(r3, VoxelMesh)

\* The first chunk appends to the old list instead of starting a new one.
UseVoxelMeshChunkNoReset(r, params) ==
    LET r1 == IF params.isFirstChunk /\ r.voxelBuffer = Undefined
              THEN [r EXCEPT !.voxelBuffer = Some(<<>>)]
              ELSE r
        r2 == [r1 EXCEPT !.allVoxelChunks = ~params.moreVoxelsToBuffer,
                         !.voxelBuffer = Push(@, CreateBufferInfoFromArrays(params.buffer)),
                         !.voxelSize = params.voxelSize]
    IN  IF params.isFirstChunk THEN VoxelFirstChunkSetup(r2, params) ELSE r2

\* The retired useVoxelMesh: every chunk rebuilds the grid and the stage.
UseVoxelMeshChunkAlwaysSetup(r, params) ==
    LET r1 == IF params.isFirstChunk THEN [r EXCEPT !.voxelBuffer = Some(<<>>)] ELSE r
        r2 == [r1 EXCEPT !.allVoxelChunks = ~params.moreVoxelsToBuffer,
                         !.voxelBuffer = Push(@, CreateBufferInfoFromArrays(params.buffer)),
                         !.voxelSize = params.voxelSize]
    IN  VoxelFirstChunkSetup(r2, params)

\* Once a stream was complete the flag stays set.
UseVoxelMeshChunkLatchesComplete(r, params) ==
    LET r1 == IF params.isFirstChunk THEN [r EXCEPT !.voxelBuffer = Some(<<>>)] ELSE r
        r2 == [r1 EXCEPT !.allVoxelChunks = @ \/ ~params.moreVoxelsToBuffer]
        r3 == [r2 EXCEPT !.voxelBuffer = Push(@, CreateBufferInfoFromArrays(params.buffer))]
        r4 == [r3 EXCEPT !.voxelSize = params.voxelSize]
    IN  IF params.isFirstChunk THEN VoxelFirstChunkSetup(r4, params) ELSE r4

UseVoxelMeshChunk(r, params) ==
    LET r1 == IF params.isFirstChunk THEN [r EXCEPT !.voxelBuffer = Some(<<>>)] ELSE r
        r2 == [r1 EXCEPT !.allVoxelChunks = ~params.moreVoxelsToBuffer]
        r3 == [r2 EXCEPT !.voxelBuffer = Push(@, CreateBufferInfoFromArrays(params.buffer))]
        r4 == [r3 EXCEPT !.voxelSize = params.voxelSize]
    IN  IF params.isFirstChunk THEN VoxelFirstChunkSetup(r4, params) ELSE r4

\* Every chunk, not the first alone, records the atlas and the stage.
UseBlockMeshChunkAlwaysSetup(r, params) ==
    LET r1 == IF params.isFirstChunk THEN [r EXCEPT !.blockBuffer = Some(<<>>)] ELSE r
        r2 == [r1 EXCEPT !.blockBuffer = Push(@, CreateBufferInfoFromArrays(params.buffer))]
        r3 == [r2 EXCEPT !.atlasTexture = Some(CreateTexture(params.atlasTexturePath))]
        r4 == [r3 EXCEPT !.atlasSize = params.atlasSize]
        r5 == [r4 EXCEPT !.gridBuffers.y[BlockMesh] = r4.gridBuffers.y[VoxelMesh]]
        r6 == [r5 EXCEPT !.modelsAvailable = 3]
    IN  SetModelToUse(r6, BlockMesh)

\* The first block chunk puts the voxel size and the grid offset back to
\* the constructor's.
UseBlockMeshChunkOwnScale(r, params) ==
    LET r1 == IF params.isFirstChunk THEN [r EXCEPT !.blockBuffer = Some(<<>>)] ELSE r
        r2 == [r1 EXCEPT !.blockBuffer = Push(@, CreateBufferInfoFromArrays(params.buffer))]
    IN  IF params.isFirstChunk
        THEN LET r3 == [r2 EXCEPT !.atlasTexture = Some(CreateTexture(params.atlasTexturePath))]
                 r4 == [r3 EXCEPT !.atlasSize = params.atlasSize]
                 r5 == [r4 EXCEPT !.gridBuffers.y[BlockMesh] = r4.gridBuffers.y[VoxelMesh]]
                 r6 == [r5 EXCEPT !.modelsAvailable = 3,
                                  !.voxelSize = InitRenderer.voxelSize,
                                  !.gridOffset = InitRenderer.gridOffset]
             IN  SetModelToUse(r6, BlockMesh)
        ELSE r2

UseBlockMeshChunk(r, params) ==
    LET r1 == IF params.isFirstChunk THEN [r EXCEPT !.blockBuffer = Some(<<>>)] ELSE r
        r2 == [r1 EXCEPT !.blockBuffer = Push(@, CreateBufferInfoFromArrays(params.buffer))]
    IN  IF params.isFirstChunk
        THEN LET r3 == [r2 EXCEPT !.atlasTexture = Some(CreateTexture(params.atlasTexturePath))]
                 r4 == [r3 EXCEPT !.atlasSize = params.atlasSize]
                 r5 == [r4 EXCEPT !.gridBuffers.y[BlockMesh] = r4.gridBuffers.y[VoxelMesh]]
                 r6 == [r5 EXCEPT !.modelsAvailable = 3]
             IN  SetModelToUse(r6, BlockMesh)
        ELSE r2

----------------------------------------------------------------------------
(* Colour channels are exact fractions num/den in lowest terms, den > 0.  *)

RECURSIVE GCD(_, _)
GCD(a, b) == IF b = 0 THEN a ELSE GCD(b, a % b)

Abs(n) == IF n < 0 THEN -n ELSE n

Frac(n, d) ==
    LET g == GCD(Abs(n), d)
    IN  [num |-> n \div g, den |-> d \div g]

FracAdd(x, y) == Frac(x.num * y.den + y.num * x.den, x.den * y.den)
FracSub(x, y) == Frac(x.num * y.den - y.num * x.den, x.den * y.den)
FracDiv(x, n) == Frac(x.num, x.den * n)

Channels == {"r", "g", "b", "a"}

RGBA(r, g, b, a) == [r |-> r, g |-> g, b |-> b, a |-> a]

\* RGBAColours.RED and BLUE, and the two colours of 'Voxel overlap average'.
RED == RGBA(Frac(1, 1), Frac(0, 1), Frac(0, 1), Frac(1, 1))
BLUE == RGBA(Frac(0, 1), Frac(0, 1), Frac(1, 1), Frac(1, 1))
WarmColour == RGBA(Frac(1, 1), Frac(1, 2), Frac(1, 4), Frac(1, 1))
ColdColour == RGBA(Frac(0, 1), Frac(1, 2), Frac(3, 4), Frac(1, 1))

Colours == {RED, BLUE, WarmColour, ColdColour}

\* RGBAColours.WHITE, the colour of 'Voxel neighbours'.
WHITE == RGBA(Frac(1, 1), Frac(1, 1), Frac(1, 1), Frac(1, 1))

Positions == {<<1, 2, 3>>, <<2, 2, 3>>}

\* The voxel of 'Voxel neighbours', the cell next to it across a face and
\* the cell next to it across an edge.
NeighbourPositions == {<<1, 2, 3>>, <<2, 2, 3>>, <<2, 3, 3>>}

\* Vector3.add and a vector's opposite.
Add(v, w) == <<v[1] + w[1], v[2] + w[2], v[3] + w[3]>>
Negate(v) == <<-v[1], -v[2], -v[3]>>

\* The 26 offsets: the unit cube without the zero vector.
Offsets ==
    {<<x, y, z>> : x \in {-1, 0, 1}, y \in {-1, 0, 1}, z \in {-1, 0, 1}}
        \ {<<0, 0, 0>>}

\* The offsets across an edge or a corner (two or three non-zero
\* components): the directions ambient occlusion looks in.
KeyOffsets ==
    {o \in Offsets : Cardinality({i \in 1..3 : o[i] # 0}) >= 2}

----------------------------------------------------------------------------
(* The VoxelMesh: addVoxel and the lookups. *)

VoxelMeshParams ==
    [voxelOverlapRule : {"first", "average"}, enableAmbientOcclusion : BOOLEAN]

\* new VoxelMesh(params): no voxel, and no neighbour relationship
\* registered.  neighbourMap holds the registered pairs <<cell, direction>>.
NewVoxelMesh(params) == [params |-> params, voxels |-> <<>>, neighbourMap |-> {}]

IsVoxelAt(vm, position) == position \in DOMAIN vm.voxels

GetVoxelAt(vm, position) ==
    IF IsVoxelAt(vm, position)
    THEN Some([position |-> vm.voxels[position].position,
               colour |-> vm.voxels[position].colour])
    ELSE Undefined

\* Every write is counted, a write to an occupied coordinate too.
GetVoxelCountOfWrites(vm) ==
    LET RECURSIVE Total(_)
        Total(ps) == IF ps = {} THEN 0
                     ELSE LET q == CHOOSE q \in ps : TRUE
                          IN  vm.voxels[q].count + Total(ps \ {q})
    IN  IF vm.params.voxelOverlapRule = "average"
        THEN Total(DOMAIN vm.voxels)
        ELSE Cardinality(DOMAIN vm.voxels)

\* The number of occupied coordinates.
GetVoxelCount(vm) == Cardinality(DOMAIN vm.voxels)

\* Only the directions ambient occlusion looks in are reported.
GetNeighboursKeyOnly(vm, position) ==
    LET occupied == {o \in KeyOffsets : IsVoxelAt(vm, Add(position, o))}
    IN  [occupied |-> occupied, value |-> Cardinality(occupied)]

\* What getNeighbours reports: the offsets whose cell is occupied now, and
\* the number of occupied key directions.
GetNeighbours(vm, position) ==
    LET occupied == {o \in Offsets : IsVoxelAt(vm, Add(position, o))}
    IN  [occupied |-> occupied, value |-> Cardinality(occupied \cap KeyOffsets)]

\* The neighbour computation registers the cell itself, not the cells
\* around it.
RegisterNeighboursAtOrigin(vm, position) ==
    IF vm.params.enableAmbientOcclusion /\ IsVoxelAt(vm, position)
    THEN [vm EXCEPT !.neighbourMap = @ \cup {<<position, o>> : o \in KeyOffsets}]
    ELSE vm

\* The neighbour computation registers the cells across a face as well.
RegisterNeighboursAllOffsets(vm, position) ==
    IF vm.params.enableAmbientOcclusion /\ IsVoxelAt(vm, position)
    THEN [vm EXCEPT !.neighbourMap =
            @ \cup {<<Add(position, o), Negate(o)>> : o \in Offsets}]
    ELSE vm

\* What a neighbour computation at `position` leaves in the mesh: with
\* ambient occlusion enabled and a voxel at `position`, every cell across an
\* edge or a corner has `position` registered as its neighbour.
RegisterNeighbours(vm, position) ==
    IF vm.params.enableAmbientOcclusion /\ IsVoxelAt(vm, position)
    THEN [vm EXCEPT !.neighbourMap =
            @ \cup {<<Add(position, o), Negate(o)>> : o \in KeyOffsets}]
    ELSE vm

HasNeighbour(vm, position, direction) == <<position, direction>> \in vm.neighbourMap

\* The map with the voxel at `position` set.
WithVoxel(voxels, position, voxel) ==
    [q \in DOMAIN voxels \cup {position} |->
        IF q = position THEN voxel ELSE voxels[q]]

\* The running mean after one more colour: old + (new - old) / count.
Blend(old, colour, count) ==
    [ch \in Channels |-> FracAdd(old[ch], FracDiv(FracSub(colour[ch], old[ch]), count))]

\* The voxel map holds the voxel just added and no other.
AddVoxelForgetsOthers(vm, position, colour) ==
    IF IsVoxelAt(vm, position)
    THEN vm
    ELSE [vm EXCEPT !.voxels =
            WithVoxel(<<>>, position,
                      [position |-> position, colour |-> colour, count |-> 1])]

\* An overlapping write replaces the colour, whatever the rule.
AddVoxelLastWins(vm, position, colour) ==
    [vm EXCEPT !.voxels =
        WithVoxel(@, position,
                  [position |-> position, colour |-> colour, count |-> 1])]

\* The average rule blends the stored colour and the new one half and half.
AddVoxelHalfBlend(vm, position, colour) ==
    IF IsVoxelAt(vm, position)
    THEN IF vm.params.voxelOverlapRule = "average"
         THEN LET voxel == vm.voxels[position]
              IN  [vm EXCEPT !.voxels =
                    WithVoxel(@, position,
                              [voxel EXCEPT !.colour = Blend(voxel.colour, colour, 2),
                                            !.count = voxel.count + 1])]
         ELSE vm
    ELSE [vm EXCEPT !.voxels =
            WithVoxel(@, position,
                      [position |-> position, colour |-> colour, count |-> 1])]

AddVoxel(vm, position, colour) ==
    IF IsVoxelAt(vm, position)
    THEN IF vm.params.voxelOverlapRule = "average"
         THEN LET voxel == vm.voxels[position]
                  count == voxel.count + 1
              IN  [vm EXCEPT !.voxels =
                    WithVoxel(@, position,
                              [voxel EXCEPT !.colour = Blend(voxel.colour, colour, count),
                                            !.count = count])]
         ELSE vm
    ELSE [vm EXCEPT !.voxels =
            WithVoxel(@, position,
                      [position |-> position, colour |-> colour, count |-> 1])]

----------------------------------------------------------------------------
(* draw(): the GL calls of one frame, in order. *)

DrawMesh(r) ==
    [i \in 1..Len(r.materialBuffers) |->
        LET materialBuffer == r.materialBuffers[i]
        IN  [call |-> "drawMesh",
             program |-> IF materialBuffer.material.type = "textured"
                         THEN "textureTriProgram"
                         ELSE "solidTriProgram",
             buffer |-> materialBuffer.buffer,
             numElements |-> materialBuffer.numElements]]

\* `list?.forEach`: no call when the list is undefined.
\* The voxel stage is drawn only once its last chunk has come.
DrawVoxelMeshWhenComplete(r) ==
    IF r.voxelBuffer = Undefined \/ ~r.allVoxelChunks
    THEN <<>>
    ELSE [i \in 1..Len(Get(r.voxelBuffer)) |->
            [call |-> "drawVoxelMesh",
             buffer |-> Get(r.voxelBuffer)[i],
             u_voxelSize |-> r.voxelSize,
             u_gridOffset |-> r.gridOffset,
             u_ambientOcclusion |-> r.allVoxelChunks]]

DrawVoxelMesh(r) ==
    IF r.voxelBuffer = Undefined
    THEN <<>>
    ELSE [i \in 1..Len(Get(r.voxelBuffer)) |->
            [call |-> "drawVoxelMesh",
             buffer |-> Get(r.voxelBuffer)[i],
             u_voxelSize |-> r.voxelSize,
             u_gridOffset |-> r.gridOffset,
             u_ambientOcclusion |-> r.allVoxelChunks]]

DrawBlockMesh(r) ==
    IF r.blockBuffer = Undefined
    THEN <<>>
    ELSE [i \in 1..Len(Get(r.blockBuffer)) |->
            [call |-> "drawBlockMesh",
             buffer |-> Get(r.blockBuffer)[i],
             u_texture |-> r.atlasTexture,
             u_voxelSize |-> r.voxelSize,
             u_atlasSize |-> r.atlasSize,
             u_gridOffset |-> r.gridOffset,
             u_nightVision |-> IsNightVisionEnabled(r)]]

GridCall(gridBuffer) ==
    IF gridBuffer # Undefined
    THEN <<[call |-> "drawGrid", buffer |-> Get(gridBuffer)]>>
    ELSE <<>>

\* The x or z plane is chosen whenever the camera is aligned with exactly
\* one of the two, whatever its alignment with y.
DrawDebugExactlyOne(r, camera) ==
    LET grid ==
            IF r.gridEnabled
            THEN IF camera.alignedX /\ ~camera.alignedZ /\ ~camera.isUserRotating
                 THEN GridCall(r.gridBuffers.x[r.meshToUse])
                 ELSE IF camera.alignedZ /\ ~camera.alignedX /\ ~camera.isUserRotating
                      THEN GridCall(r.gridBuffers.z[r.meshToUse])
                      ELSE GridCall(r.gridBuffers.y[r.meshToUse])
            ELSE <<>>
        axis == IF r.axesEnabled THEN <<[call |-> "drawAxis"]>> ELSE <<>>
    IN  grid \o axis

DrawDebug(r, camera) ==
    LET grid ==
            IF r.gridEnabled
            THEN IF camera.alignedX /\ ~camera.alignedY /\ ~camera.isUserRotating
                 THEN GridCall(r.gridBuffers.x[r.meshToUse])
                 ELSE IF camera.alignedZ /\ ~camera.alignedY /\ ~camera.isUserRotating
                      THEN GridCall(r.gridBuffers.z[r.meshToUse])
                      ELSE GridCall(r.gridBuffers.y[r.meshToUse])
            ELSE <<>>
        axis == IF r.axesEnabled THEN <<[call |-> "drawAxis"]>> ELSE <<>>
    IN  grid \o axis

\* The routine is chosen by the watermark, not by the active stage.
DrawByWatermark(r, camera) ==
    LET mesh == CASE r.modelsAvailable = TriangleMesh -> DrawMesh(r)
                  [] r.modelsAvailable = VoxelMesh -> DrawVoxelMesh(r)
                  [] r.modelsAvailable = BlockMesh -> DrawBlockMesh(r)
                  [] OTHER -> <<>>
    IN  <<[call |-> "setupScene"]>> \o mesh \o DrawDebug(r, camera)

Draw(r, camera) ==
    LET mesh == CASE r.meshToUse = TriangleMesh -> DrawMesh(r)
                  [] r.meshToUse = VoxelMesh -> DrawVoxelMesh(r)
                  [] r.meshToUse = BlockMesh -> DrawBlockMesh(r)
                  [] OTHER -> <<>>
    IN  <<[call |-> "setupScene"]>> \o mesh \o DrawDebug(r, camera)

----------------------------------------------------------------------------
(* History of the calls, kept for the properties; the renderer never      *)
(* reads it.                                                               *)
(*   cleared     clearMesh ran and no use* call has run since              *)
(*   lowered     the last call left the watermark lower than it found it   *)
(*   dropped     the last call found a material name in the map that it    *)
(*               did not leave there                                       *)
(*   forced      the last call found night vision off and left it on       *)
(*   evaluated   the coordinates getNeighbours was asked for while they     *)
(*               held a voxel                                              *)
(*   reported    per coordinate, what the last getNeighbours there found  *)
(*               occupied, if it was asked                                 *)
(*   meshLoaded  useMesh ran since the last clearMesh (or construction)    *)
(*   stream      voxel chunks since, and with, the last first voxel chunk; *)
(*               0 when no first voxel chunk has come                      *)
(*   streamDone  the last chunk of the voxel stream (the chunks counted by  *)
(*               stream) said that no more voxels are to come              *)
(*   lastVoxel   the parameters of the most recent voxel chunk, if any     *)
(*   lastFirstVoxel  the parameters of the most recent first voxel chunk,  *)
(*               if any                                                    *)
(*   e2e         progress of the run "useMesh, first voxel chunk,          *)
(*               non-first chunk, non-first chunk": 0 (not in it) to 4     *)
(*   selAt       the e2e at which setModelToUse(TriangleMesh) was issued   *)
(*               in that run, 0 when it was not                            *)

InitHist ==
    [cleared |-> FALSE, lowered |-> FALSE, dropped |-> FALSE, forced |-> FALSE,
     evaluated |-> {}, reported |-> [position \in NeighbourPositions |-> Undefined],
     meshLoaded |-> FALSE,
     stream |-> 0, streamDone |-> FALSE,
     lastVoxel |-> Undefined, lastFirstVoxel |-> Undefined,
     e2e |-> 0, selAt |-> 0]

NoRun(h) == [h EXCEPT !.e2e = 0, !.selAt = 0]

HistAfter(h, o) ==
    CASE o.name = "clearMesh" ->
            NoRun([h EXCEPT !.cleared = TRUE, !.meshLoaded = FALSE])
      [] o.name = "useMesh" ->
            [h EXCEPT !.cleared = FALSE, !.meshLoaded = TRUE, !.e2e = 1, !.selAt = 0]
      [] o.name = "useVoxelMeshChunk" /\ o.params.isFirstChunk ->
            [h EXCEPT !.cleared = FALSE, !.stream = 1,
                      !.streamDone = ~o.params.moreVoxelsToBuffer,
                      !.lastVoxel = Some(o.params),
                      !.lastFirstVoxel = Some(o.params),
                      !.e2e = IF h.e2e >= 1 THEN 2 ELSE 0, !.selAt = 0]
      [] o.name = "useVoxelMeshChunk" /\ ~o.params.isFirstChunk ->
            [h EXCEPT !.cleared = FALSE, !.stream = IF @ = 0 THEN 0 ELSE @ + 1,
                      !.streamDone = IF h.stream = 0 THEN @
                                     ELSE ~o.params.moreVoxelsToBuffer,
                      !.lastVoxel = Some(o.params),
                      !.e2e = IF h.e2e \in {2, 3} THEN h.e2e + 1
                              ELSE IF h.e2e = 4 THEN 4 ELSE 0,
                      !.selAt = IF h.e2e >= 2 THEN @ ELSE 0]
      [] o.name = "useBlockMeshChunk" ->
            NoRun([h EXCEPT !.cleared = FALSE])
      [] o.name = "setModelToUse" ->
            IF h.e2e >= 2 /\ o.meshType = TriangleMesh
            THEN [h EXCEPT !.selAt = h.e2e]
            ELSE NoRun(h)
      [] OTHER -> h

----------------------------------------------------------------------------
(* The calls. *)

NoFrame == <<>>

NothingWritten == [position \in Positions \cup NeighbourPositions |-> <<>>]

\* What a call on the renderer leaves in op, threw, frame and hist.
Record(o, t, f) ==
    /\ UNCHANGED <<voxelMesh, written>>
    /\ op' = o
    /\ threw' = t
    /\ frame' = f
    /\ hist' = [HistAfter(hist, o) EXCEPT
                    !.lowered = GetModelsAvailable(renderer') < GetModelsAvailable(renderer),
                    !.dropped = MapKeys(renderer.materialBuffers)
                                    \ MapKeys(renderer'.materialBuffers) # {},
                    !.forced = /\ ~IsNightVisionEnabled(renderer)
                               /\ IsNightVisionEnabled(renderer')]

DoSetModelToUse(meshType) ==
    /\ renderer' = SetModelToUse(renderer, meshType)
    /\ Record([name |-> "setModelToUse", meshType |-> meshType], FALSE, NoFrame)

DoClearMesh ==
    /\ renderer' = ClearMesh(renderer)
    /\ Record([name |-> "clearMesh"], FALSE, NoFrame)

DoUseMesh(params) ==
    /\ renderer' = UseMesh(renderer, params)
    /\ Record([name |-> "useMesh", params |-> params], FALSE, NoFrame)

\* Whether a chunk list takes another non-first chunk within the bound.
HasRoom(list, max) == IF list = Undefined THEN TRUE ELSE Len(Get(list)) < max

DoUseVoxelMeshChunk(params) ==
    /\ params.isFirstChunk \/ HasRoom(renderer.voxelBuffer, MaxVoxelChunks)
    /\ renderer' = UseVoxelMeshChunk(renderer, params)
    /\ Record([name |-> "useVoxelMeshChunk", params |-> params], FALSE, NoFrame)

DoUseBlockMeshChunk(params) ==
    /\ params.isFirstChunk \/ HasRoom(renderer.blockBuffer, MaxBlockChunks)
    /\ renderer' = UseBlockMeshChunk(renderer, params)
    /\ Record([name |-> "useBlockMeshChunk", params |-> params], FALSE, NoFrame)

DoRecreateMaterialBuffer(materialName, material) ==
    LET res == RecreateMaterialBuffer(renderer, materialName, material)
    IN  /\ renderer' = res.renderer
        /\ Record([name |-> "recreateMaterialBuffer", materialName |-> materialName,
                   material |-> material],
                  res.threw, NoFrame)

DoUpdateMeshMaterialTexture(materialName, material) ==
    /\ renderer' = UpdateMeshMaterialTexture(renderer, materialName, material)
    /\ Record([name |-> "updateMeshMaterialTexture", materialName |-> materialName,
               material |-> material],
              FALSE, NoFrame)

DoDraw(camera) ==
    /\ renderer' = renderer
    /\ Record([name |-> "draw", camera |-> camera], FALSE, Draw(renderer, camera))

DoSetLightingAvailable(isAvailable) ==
    /\ renderer' = SetLightingAvailable(renderer, isAvailable)
    /\ Record([name |-> "setLightingAvailable", isAvailable |-> isAvailable],
              FALSE, NoFrame)

DoToggleIsGridEnabled ==
    /\ renderer' = ToggleIsGridEnabled(renderer)
    /\ Record([name |-> "toggleIsGridEnabled"], FALSE, NoFrame)

DoToggleIsAxesEnabled ==
    /\ renderer' = ToggleIsAxesEnabled(renderer)
    /\ Record([name |-> "toggleIsAxesEnabled"], FALSE, NoFrame)

DoToggleIsNightVisionEnabled ==
    /\ renderer' = ToggleIsNightVisionEnabled(renderer)
    /\ Record([name |-> "toggleIsNightVisionEnabled"], FALSE, NoFrame)

\* addVoxel, while the mesh has taken fewer than MaxWrites of them.
WritesIn(ps) ==
    LET RECURSIVE Total(_)
        Total(qs) == IF qs = {} THEN 0
                     ELSE LET q == CHOOSE q \in qs : TRUE
                          IN  Len(written[q]) + Total(qs \ {q})
    IN  Total(ps)

WritesSoFar == WritesIn(DOMAIN written)

DoAddVoxel(position, colour) ==
    /\ WritesSoFar < MaxWrites
    /\ voxelMesh' = AddVoxel(voxelMesh, position, colour)
    /\ written' = [written EXCEPT ![position] = Append(@, colour)]
    /\ op' = [name |-> "addVoxel", position |-> position, colour |-> colour]
    /\ threw' = FALSE
    /\ frame' = NoFrame
    /\ UNCHANGED <<renderer, hist>>

\* getNeighbours: the report, and the neighbour computation it runs.
DoGetNeighbours(position) ==
    /\ voxelMesh' = RegisterNeighbours(voxelMesh, position)
    /\ op' = [name |-> "getNeighbours", position |-> position,
              result |-> GetNeighbours(voxelMesh, position),
              previous |-> hist.reported[position]]
    /\ hist' = [hist EXCEPT
                    !.evaluated = IF IsVoxelAt(voxelMesh, position)
                                  THEN @ \cup {position} ELSE @,
                    !.reported[position] =
                        Some(GetNeighbours(voxelMesh, position).occupied)]
    /\ threw' = FALSE
    /\ frame' = NoFrame
    /\ UNCHANGED <<renderer, written>>

Init ==
    /\ renderer = InitRenderer
    /\ op = [name |-> "new"]
    /\ threw = FALSE
    /\ frame = NoFrame
    /\ hist = InitHist
    /\ voxelMesh = NewVoxelMesh([voxelOverlapRule |-> "first",
                                 enableAmbientOcclusion |-> TRUE])
    /\ written = NothingWritten

Next ==
    \/ \E meshType \in MeshTypes : DoSetModelToUse(meshType)
    \/ DoClearMesh
    \/ \E params \in RenderMeshParams : DoUseMesh(params)
    \/ \E params \in RenderNextVoxelMeshChunkParams : DoUseVoxelMeshChunk(params)
    \/ \E params \in RenderNextBlockMeshChunkParams : DoUseBlockMeshChunk(params)
    \/ \E materialName \in MaterialNames, material \in Materials :
            DoRecreateMaterialBuffer(materialName, material)
    \/ \E materialName \in MaterialNames, material \in TexturedMaterials :
            DoUpdateMeshMaterialTexture(materialName, material)
    \/ DoDraw(FreeCamera)

Spec == Init /\ [][Next]_vars

\* The view settings (lighting, night vision, grid, axes) over the block
\* stage, drawn under every camera.
NextView ==
    \/ \E isAvailable \in BOOLEAN : DoSetLightingAvailable(isAvailable)
    \/ DoToggleIsNightVisionEnabled
    \/ DoToggleIsGridEnabled
    \/ DoToggleIsAxesEnabled
    \/ \E meshType \in MeshTypes : DoSetModelToUse(meshType)
    \/ \E params \in RenderNextBlockMeshChunkParams : DoUseBlockMeshChunk(params)
    \/ \E camera \in Cameras : DoDraw(camera)

SpecView == Init /\ [][NextView]_vars

\* The three stages loaded in any order, one chunk each, with the grid and
\* the axes switched on and off, drawn under every camera.
NextDraw ==
    \/ \E params \in {m \in RenderMeshParams : Len(m.buffers) = 2} : DoUseMesh(params)
    \/ \E params \in {c \in RenderNextVoxelMeshChunkParams : c.isFirstChunk} :
            DoUseVoxelMeshChunk(params)
    \/ \E params \in {c \in RenderNextBlockMeshChunkParams : c.isFirstChunk} :
            DoUseBlockMeshChunk(params)
    \/ \E meshType \in MeshTypes : DoSetModelToUse(meshType)
    \/ DoToggleIsGridEnabled
    \/ DoToggleIsAxesEnabled
    \/ \E camera \in Cameras : DoDraw(camera)

SpecDraw == Init /\ [][NextDraw]_vars

\* A VoxelMesh of either overlap rule, with or without ambient occlusion,
\* filled by addVoxel.
InitVoxelMesh ==
    /\ renderer = InitRenderer
    /\ op = [name |-> "new"]
    /\ threw = FALSE
    /\ frame = NoFrame
    /\ hist = InitHist
    /\ voxelMesh \in {NewVoxelMesh(params) : params \in VoxelMeshParams}
    /\ written = NothingWritten

NextVoxelMesh ==
    \E position \in Positions, colour \in Colours : DoAddVoxel(position, colour)

SpecVoxelMesh == InitVoxelMesh /\ [][NextVoxelMesh]_vars

\* The same meshes, filled with white voxels at three coordinates next to
\* each other and asked for their neighbours.
NextNeighbours ==
    \/ \E position \in NeighbourPositions : DoAddVoxel(position, WHITE)
    \/ \E position \in NeighbourPositions : DoGetNeighbours(position)

SpecNeighbours == InitVoxelMesh /\ [][NextNeighbours]_vars

----------------------------------------------------------------------------
(* What the properties read. *)

ModelsAvailable == GetModelsAvailable(renderer)

ActiveMeshType == GetActiveMeshType(renderer)

IsFirstVoxelChunk(o) == o.name = "useVoxelMeshChunk" /\ o.params.isFirstChunk

IsLaterVoxelChunk(o) == o.name = "useVoxelMeshChunk" /\ ~o.params.isFirstChunk

IsFirstBlockChunk(o) == o.name = "useBlockMeshChunk" /\ o.params.isFirstChunk

IsLaterBlockChunk(o) == o.name = "useBlockMeshChunk" /\ ~o.params.isFirstChunk

\* The buffers a chunk list holds, none when it was never started.
Chunks(list) == IF list = Undefined THEN <<>> ELSE Get(list)

\* The calls of a frame that draw mesh geometry, and the buffers they draw.
MeshCalls(f) ==
    SelectSeq(f, LAMBDA c : c.call \in {"drawMesh", "drawVoxelMesh", "drawBlockMesh"})

DrawnBuffers(f) == [i \in 1..Len(MeshCalls(f)) |-> MeshCalls(f)[i].buffer]

----------------------------------------------------------------------------
(* C1: in every reachable state the active display stage is at most the   *)
(* watermark.                                                              *)
C1_ActiveAtMostWatermark == ActiveMeshType <= ModelsAvailable

\* A request beyond the watermark was just turned down.
C1_Witness ==
    /\ op.name = "setModelToUse"
    /\ op.meshType = BlockMesh
    /\ ModelsAvailable = VoxelMesh
    /\ ActiveMeshType = VoxelMesh

C3_SetModelToUse ==
    [][op'.name = "setModelToUse" =>
        /\ ~threw'
        /\ IF op'.meshType > ModelsAvailable
           THEN renderer' = renderer
           ELSE renderer' = [renderer EXCEPT !.meshToUse = op'.meshType]]_vars

\* A stage beyond the watermark was asked for, and the active stage is
\* another one.
C3_Witness ==
    /\ op.name = "setModelToUse"
    /\ op.meshType > ModelsAvailable
    /\ ActiveMeshType = TriangleMesh
    /\ ~threw

(* C4: from clearMesh() until the next use* call the material-buffer map  *)
(* is empty and the watermark and the active stage are None, whatever      *)
(* setModelToUse is asked in between.                                      *)
C4_ClearMesh ==
    hist.cleared =>
        /\ renderer.materialBuffers = <<>>
        /\ ModelsAvailable = None
        /\ ActiveMeshType = None

\* A loaded renderer was cleared and then asked for a stage.
C4_Witness ==
    /\ hist.cleared
    /\ op.name = "setModelToUse"
    /\ op.meshType > None
    /\ renderer.voxelBuffer # Undefined
    /\ renderer.blockBuffer # Undefined

(* C5: a first voxel chunk leaves the voxel buffer list holding that      *)
(* chunk alone; a later chunk appends its buffer to the list, the rest     *)
(* kept in order; so the list holds as many buffers as chunks came since,  *)
(* and with, the last first chunk.                                         *)
C5_VoxelChunkList ==
    /\ [](IF hist.stream = 0
          THEN renderer.voxelBuffer = Undefined
          ELSE /\ renderer.voxelBuffer # Undefined
               /\ Len(Get(renderer.voxelBuffer)) = hist.stream)
    /\ [][/\ IsFirstVoxelChunk(op') =>
                renderer'.voxelBuffer =
                    Some(<<CreateBufferInfoFromArrays(op'.params.buffer)>>)
          /\ (IsLaterVoxelChunk(op') /\ renderer.voxelBuffer # Undefined) =>
                renderer'.voxelBuffer =
                    Some(Append(Get(renderer.voxelBuffer),
                                CreateBufferInfoFromArrays(op'.params.buffer)))]_vars

\* One first chunk and two different later chunks, in the order they came.
C5_Witness ==
    /\ hist.stream = 3
    /\ renderer.voxelBuffer =
          Some(<<CreateBufferInfoFromArrays(4), CreateBufferInfoFromArrays(3),
                 CreateBufferInfoFromArrays(2)>>)

(* C6: a first voxel chunk sets the watermark and the active stage to     *)
(* VoxelMesh, and nothing else raises the watermark to VoxelMesh; a later  *)
(* chunk leaves the watermark, the active stage, the grid offset and the   *)
(* grid buffers as they were and sets the voxel size and the               *)
(* all-chunks-received flag from the chunk.                                *)
C6_VoxelChunkStage ==
    [][/\ IsFirstVoxelChunk(op') =>
            /\ ModelsAvailable' = VoxelMesh
            /\ ActiveMeshType' = VoxelMesh
       /\ (ModelsAvailable' = VoxelMesh /\ ModelsAvailable # VoxelMesh) =>
            IsFirstVoxelChunk(op')
       /\ IsLaterVoxelChunk(op') =>
            /\ ModelsAvailable' = ModelsAvailable
            /\ ActiveMeshType' = ActiveMeshType
            /\ renderer'.gridOffset = renderer.gridOffset
            /\ renderer'.gridBuffers = renderer.gridBuffers
            /\ renderer'.voxelSize = op'.params.voxelSize
            /\ renderer'.allVoxelChunks = ~op'.params.moreVoxelsToBuffer]_vars

\* A later chunk of another voxel size came while the triangle stage is
\* shown: the voxel size follows the chunk, the grid and the stage do not.
C6_Witness ==
    /\ IsLaterVoxelChunk(op)
    /\ renderer.voxelBuffer # Undefined
    /\ renderer.gridBuffers.x[VoxelMesh] # Undefined
    /\ renderer.voxelSize = 2
    /\ Get(renderer.gridBuffers.x[VoxelMesh]).spacing = <<1>>
    /\ renderer.gridOffset = GridOffsetOf(<<2, 3, 4>>)
    /\ ActiveMeshType = TriangleMesh
    /\ ModelsAvailable = VoxelMesh

(* C7: in the run useMesh, first voxel chunk, later chunks, the watermark *)
(* is TriangleMesh after useMesh and VoxelMesh from the first chunk on;    *)
(* the active stage is TriangleMesh after useMesh, VoxelMesh from the      *)
(* first chunk on, and TriangleMesh from a setModelToUse(TriangleMesh) on, *)
(* whether that came after the chunks or between them.                     *)
C7_EndToEnd ==
    /\ hist.e2e = 1 =>
            ModelsAvailable = TriangleMesh /\ ActiveMeshType = TriangleMesh
    /\ hist.e2e >= 2 =>
            /\ ModelsAvailable = VoxelMesh
            /\ ActiveMeshType = IF hist.selAt > 0 THEN TriangleMesh ELSE VoxelMesh

\* useMesh, three voxel chunks, then setModelToUse(TriangleMesh).
C7_Witness ==
    /\ hist.e2e = 4
    /\ hist.selAt = 4
    /\ op.name = "setModelToUse"
    /\ hist.stream = 3

(* C8 as stated: the watermark becomes BlockMesh only by a first block    *)
(* chunk that finds the watermark at VoxelMesh (or BlockMesh).             *)
C8_BlockOnlyAfterVoxel ==
    [][(ModelsAvailable' = BlockMesh /\ ModelsAvailable # BlockMesh) =>
            /\ IsFirstBlockChunk(op')
            /\ ModelsAvailable = VoxelMesh]_vars

(* C9 as stated: the active stage has its buffers: TriangleMesh only      *)
(* after a useMesh since the last clearMesh, VoxelMesh only with a voxel   *)
(* buffer list, BlockMesh only with a block buffer list.                   *)
C9_StageHasBuffers ==
    /\ ActiveMeshType = TriangleMesh => hist.meshLoaded
    /\ ActiveMeshType = VoxelMesh => renderer.voxelBuffer # Undefined
    /\ ActiveMeshType = BlockMesh => renderer.blockBuffer # Undefined

(* C10: recreateMaterialBuffer for a name the material-buffer map does    *)
(* not hold raises, and leaves the renderer as it was.                     *)
C10_RecreateUnknown ==
    [][(/\ op'.name = "recreateMaterialBuffer"
        /\ ~MapHas(renderer.materialBuffers, op'.materialName)) =>
            /\ threw'
            /\ renderer' = renderer]_vars

\* The call failed on a renderer that holds another material and a stage.
C10_Witness ==
    /\ op.name = "recreateMaterialBuffer"
    /\ threw
    /\ op.materialName = "m2"
    /\ MapKeys(renderer.materialBuffers) = {"m1"}
    /\ ActiveMeshType = TriangleMesh

(* C11 as stated: updateMeshMaterialTexture for a name the                *)
(* material-buffer map does not hold raises.                               *)
C11_UpdateUnknownAsserts ==
    [][(/\ op'.name = "updateMeshMaterialTexture"
        /\ ~MapHas(renderer.materialBuffers, op'.materialName)) =>
            threw']_vars

(* C12: recreateMaterialBuffer and updateMeshMaterialTexture for a name   *)
(* the map holds do not raise and replace the material of that entry       *)
(* alone: its geometry handle and element count, the other entries, the    *)
(* names and their order, and every other field of the renderer            *)
(* (watermark, active stage, voxel and block buffer lists) stay.           *)
C12_MaterialOnly ==
    [][(/\ op'.name \in {"recreateMaterialBuffer", "updateMeshMaterialTexture"}
        /\ MapHas(renderer.materialBuffers, op'.materialName)) =>
            /\ ~threw'
            /\ renderer' = [renderer EXCEPT !.materialBuffers = renderer'.materialBuffers]
            /\ Len(renderer'.materialBuffers) = Len(renderer.materialBuffers)
            /\ \A i \in 1..Len(renderer.materialBuffers) :
                LET old == renderer.materialBuffers[i]
                    new == renderer'.materialBuffers[i]
                IN  /\ new.materialName = old.materialName
                    /\ new.buffer = old.buffer
                    /\ new.numElements = old.numElements
                    /\ new.material = IF old.materialName = op'.materialName
                                      THEN RenderMaterial(op'.material)
                                      ELSE old.material]_vars

\* The solid material of a two-material mesh was recreated as a textured
\* one, with voxel chunks loaded: the geometry and the other entry stand.
C12_Witness ==
    /\ op.name = "recreateMaterialBuffer"
    /\ ~threw
    /\ op.materialName = "m1"
    /\ op.material.type = "textured"
    /\ Len(renderer.materialBuffers) = 2
    /\ renderer.materialBuffers[1].materialName = "m2"
    /\ renderer.materialBuffers[2] =
          [buffer |-> CreateBufferInfoFromArrays(1),
           material |-> RenderMaterial(op.material),
           numElements |-> 3,
           materialName |-> "m1"]
    /\ renderer.voxelBuffer # Undefined

(* C13: useMesh replaces the material-buffer map wholesale: after it the  *)
(* names in the map are exactly the names in params.buffers, one entry per *)
(* distinct name (so no entry of the previous mesh is left), and the       *)
(* watermark and the active stage are TriangleMesh.                        *)
C13_UseMeshReplaces ==
    [][op'.name = "useMesh" =>
        LET names == {op'.params.buffers[i].materialName :
                        i \in 1..Len(op'.params.buffers)}
        IN  /\ MapKeys(renderer'.materialBuffers) = names
            /\ Len(renderer'.materialBuffers) = Cardinality(names)
            /\ ModelsAvailable' = TriangleMesh
            /\ ActiveMeshType' = TriangleMesh]_vars

\* A mesh whose two buffers share the name m1 was loaded over a mesh that
\* held another name, at a later stage: one entry, the other name gone.
C13_Witness ==
    /\ op.name = "useMesh"
    /\ Len(op.params.buffers) = 2
    /\ MapKeys(renderer.materialBuffers) = {"m1"}
    /\ Len(renderer.materialBuffers) = 1
    /\ hist.dropped
    /\ hist.lowered
    /\ ModelsAvailable = TriangleMesh
    /\ ActiveMeshType = TriangleMesh

(* C14: a first block chunk leaves the block buffer list holding that     *)
(* chunk alone, records the atlas texture and the atlas size of the chunk  *)
(* and sets the watermark and the active stage to BlockMesh; a later       *)
(* chunk appends its buffer to the list the first chunk started, and       *)
(* leaves the atlas texture, the atlas size, the watermark and the active  *)
(* stage as they were.                                                     *)
C14_BlockChunk ==
    [][/\ IsFirstBlockChunk(op') =>
            /\ renderer'.blockBuffer =
                    Some(<<CreateBufferInfoFromArrays(op'.params.buffer)>>)
            /\ renderer'.atlasTexture = Some(CreateTexture(op'.params.atlasTexturePath))
            /\ renderer'.atlasSize = op'.params.atlasSize
            /\ ModelsAvailable' = BlockMesh
            /\ ActiveMeshType' = BlockMesh
       /\ IsLaterBlockChunk(op') =>
            /\ renderer.blockBuffer # Undefined =>
                    renderer'.blockBuffer =
                        Some(Append(Get(renderer.blockBuffer),
                                    CreateBufferInfoFromArrays(op'.params.buffer)))
            /\ renderer'.atlasTexture = renderer.atlasTexture
            /\ renderer'.atlasSize = renderer.atlasSize
            /\ ModelsAvailable' = ModelsAvailable
            /\ ActiveMeshType' = ActiveMeshType]_vars

\* A later chunk of another atlas came while the voxel stage is shown: the
\* list holds both chunks, the atlas and the stage are those of before.
C14_Witness ==
    /\ IsLaterBlockChunk(op)
    /\ renderer.blockBuffer =
          Some(<<CreateBufferInfoFromArrays(5), CreateBufferInfoFromArrays(6)>>)
    /\ renderer.atlasTexture = Some(CreateTexture("atlas.png"))
    /\ renderer.atlasSize = 16
    /\ op.params.atlasSize # renderer.atlasSize
    /\ ModelsAvailable = BlockMesh
    /\ ActiveMeshType = VoxelMesh

(* C15: draw() can run in any state, between any two chunks: it does not  *)
(* raise, it draws the buffers appended so far to the list of the active   *)
(* stage, one call per chunk in the order they came and none when the      *)
(* list was never started, and it leaves the renderer (watermark, active   *)
(* stage, every list) as it was.                                           *)
C15_DrawInterleaved ==
    /\ [](ENABLED DoDraw(FreeCamera))
    /\ [][op'.name = "draw" =>
            /\ ~threw'
            /\ renderer' = renderer
            /\ ActiveMeshType = None => MeshCalls(frame') = <<>>
            /\ ActiveMeshType = TriangleMesh =>
                    /\ DrawnBuffers(frame') =
                            [i \in 1..Len(renderer.materialBuffers) |->
                                renderer.materialBuffers[i].buffer]
                    /\ \A i \in 1..Len(MeshCalls(frame')) :
                            MeshCalls(frame')[i].call = "drawMesh"
            /\ ActiveMeshType = VoxelMesh =>
                    /\ DrawnBuffers(frame') = Chunks(renderer.voxelBuffer)
                    /\ \A i \in 1..Len(MeshCalls(frame')) :
                            MeshCalls(frame')[i].call = "drawVoxelMesh"
            /\ ActiveMeshType = BlockMesh =>
                    /\ DrawnBuffers(frame') = Chunks(renderer.blockBuffer)
                    /\ \A i \in 1..Len(MeshCalls(frame')) :
                            MeshCalls(frame')[i].call = "drawBlockMesh"]_vars

\* A frame drawn between the second chunk of a voxel stream and the chunks
\* still to come: the scene set-up and the two chunks.
C15_Witness ==
    /\ op.name = "draw"
    /\ hist.stream = 2
    /\ ~renderer.allVoxelChunks
    /\ ActiveMeshType = VoxelMesh
    /\ Len(frame) = 3
    /\ DrawnBuffers(frame) = Get(renderer.voxelBuffer)

(* C16 as stated: from clearMesh() until the next use* call the voxel     *)
(* buffer list and the block buffer list hold no chunk.                    *)
C16_ClearDiscardsChunks ==
    hist.cleared =>
        /\ Chunks(renderer.voxelBuffer) = <<>>
        /\ Chunks(renderer.blockBuffer) = <<>>

(* C17: night vision is on whenever lighting is unavailable;              *)
(* toggleIsNightVisionEnabled flips the flag when canToggleNightVision()   *)
(* and leaves it as it was otherwise; setLightingAvailable(false) leaves   *)
(* the flag on.                                                            *)
C17_NightVision ==
    /\ [](~renderer.lightingAvailable => IsNightVisionEnabled(renderer))
    /\ [][/\ op'.name = "toggleIsNightVisionEnabled" =>
                IsNightVisionEnabled(renderer') =
                    IF CanToggleNightVision(renderer)
                    THEN ~IsNightVisionEnabled(renderer)
                    ELSE IsNightVisionEnabled(renderer)
          /\ (op'.name = "setLightingAvailable" /\ ~op'.isAvailable) =>
                /\ ~CanToggleNightVision(renderer')
                /\ IsNightVisionEnabled(renderer')]_vars

\* Lighting was withdrawn while night vision was off, with block chunks
\* loaded: the flag is back on.
C17_Witness ==
    /\ op.name = "setLightingAvailable"
    /\ ~op.isAvailable
    /\ hist.forced
    /\ IsNightVisionEnabled(renderer)
    /\ renderer.blockBuffer # Undefined

----------------------------------------------------------------------------
(* What the VoxelMesh properties read. *)

OverlapRule == voxelMesh.params.voxelOverlapRule

\* The colour of the voxel at a coordinate that holds one.
ColourAt(vm, position) == Get(GetVoxelAt(vm, position)).colour

RECURSIVE Sum(_, _, _)
Sum(colours, ch, n) ==
    IF n = 0 THEN Frac(0, 1) ELSE FracAdd(Sum(colours, ch, n - 1), colours[n][ch])

\* The componentwise mean of a non-empty sequence of colours.
Mean(colours) ==
    [ch \in Channels |-> FracDiv(Sum(colours, ch, Len(colours)), Len(colours))]

(* C18: a coordinate never passed to addVoxel holds no voxel (isVoxelAt   *)
(* false, getVoxelAt not found); addVoxel(p, c) on a mesh without a voxel  *)
(* at p leaves one there, of position p and colour c; a coordinate that    *)
(* holds a voxel holds one, of that position, ever after.                  *)
C18_VoxelPresence ==
    /\ [](\A p \in Positions :
            IF written[p] = <<>>
            THEN ~IsVoxelAt(voxelMesh, p) /\ GetVoxelAt(voxelMesh, p) = Undefined
            ELSE /\ IsVoxelAt(voxelMesh, p)
                 /\ GetVoxelAt(voxelMesh, p) # Undefined
                 /\ Get(GetVoxelAt(voxelMesh, p)).position = p)
    /\ [][/\ (op'.name = "addVoxel" /\ ~IsVoxelAt(voxelMesh, op'.position)) =>
                GetVoxelAt(voxelMesh', op'.position) =
                    Some([position |-> op'.position, colour |-> op'.colour])
          /\ \A p \in Positions :
                IsVoxelAt(voxelMesh, p) => IsVoxelAt(voxelMesh', p)]_vars

\* A voxel was added at a free coordinate of a mesh that holds another
\* voxel; the other one is still there.
C18_Witness ==
    /\ op.name = "addVoxel"
    /\ op.position = <<2, 2, 3>>
    /\ written[<<2, 2, 3>>] = <<op.colour>>
    /\ written[<<1, 2, 3>>] # <<>>
    /\ GetVoxelAt(voxelMesh, <<2, 2, 3>>) =
          Some([position |-> <<2, 2, 3>>, colour |-> op.colour])
    /\ IsVoxelAt(voxelMesh, <<1, 2, 3>>)

(* C19: under the overlap rule 'first' the voxel at a coordinate keeps    *)
(* the colour of the first addVoxel at that coordinate, whatever colours   *)
(* later calls at that coordinate bring.                                   *)
C19_OverlapFirst ==
    OverlapRule = "first" =>
        \A p \in Positions :
            written[p] # <<>> => ColourAt(voxelMesh, p) = written[p][1]

\* 'Voxel overlap first': RED then BLUE at one coordinate leave RED.
C19_Witness ==
    /\ OverlapRule = "first"
    /\ op.name = "addVoxel"
    /\ written[op.position] = <<RED, BLUE>>
    /\ ColourAt(voxelMesh, op.position) = RED

(* C20: under the overlap rule 'average' the voxel at a coordinate has    *)
(* the componentwise mean of the colours written to that coordinate        *)
(* ({1, 0.5, 0.25, 1} and {0, 0.5, 0.75, 1} give {0.5, 0.5, 0.5, 1}), and  *)
(* a write to another coordinate leaves it as it was.                      *)
C20_OverlapAverage ==
    /\ [](OverlapRule = "average" =>
            \A p \in Positions :
                /\ written[p] # <<>> => ColourAt(voxelMesh, p) = Mean(written[p])
                /\ written[p] = <<WarmColour, ColdColour>> =>
                        ColourAt(voxelMesh, p) =
                            RGBA(Frac(1, 2), Frac(1, 2), Frac(1, 2), Frac(1, 1)))
    /\ [][(OverlapRule = "average" /\ op'.name = "addVoxel") =>
            \A p \in Positions \ {op'.position} :
                GetVoxelAt(voxelMesh', p) = GetVoxelAt(voxelMesh, p)]_vars

\* Three different colours were written to one coordinate and one to the
\* other, the last write to the first: its colour is the mean of the three.
C20_Witness ==
    /\ OverlapRule = "average"
    /\ op.name = "addVoxel"
    /\ written[<<1, 2, 3>>] = <<WarmColour, ColdColour, RED>>
    /\ written[<<2, 2, 3>>] = <<BLUE>>
    /\ op.position = <<1, 2, 3>>
    /\ ColourAt(voxelMesh, <<1, 2, 3>>) =
          RGBA(Frac(2, 3), Frac(1, 3), Frac(1, 3), Frac(1, 1))
    /\ ColourAt(voxelMesh, <<2, 2, 3>>) = BLUE

(* C21: under either overlap rule getVoxelCount() is the number of        *)
(* distinct coordinates addVoxel was given so far, and an addVoxel at an   *)
(* occupied coordinate leaves the count as it was.                         *)
C21_VoxelCount ==
    /\ [](GetVoxelCount(voxelMesh) =
            Cardinality({p \in DOMAIN written : written[p] # <<>>}))
    /\ [][(op'.name = "addVoxel" /\ IsVoxelAt(voxelMesh, op'.position)) =>
            GetVoxelCount(voxelMesh') = GetVoxelCount(voxelMesh)]_vars

\* Under the rule 'average' one coordinate was written three times and the
\* other once: two voxels.
C21_Witness ==
    /\ OverlapRule = "average"
    /\ op.name = "addVoxel"
    /\ Len(written[op.position]) = 3
    /\ \E p \in Positions \ {op.position} : Len(written[p]) = 1
    /\ GetVoxelCount(voxelMesh) = 2

----------------------------------------------------------------------------
(* What the neighbour properties read. *)

AmbientOcclusion == voxelMesh.params.enableAmbientOcclusion

\* The cells hasNeighbour is asked about: the coordinates of the voxels
\* and every cell around them.
Cells ==
    NeighbourPositions \cup {Add(p, o) : p \in NeighbourPositions, o \in Offsets}

\* A neighbour computation produced the relationship (q, d): getNeighbours
\* ran at q + d while it held a voxel, d an edge or corner direction.
Registered(q, d) ==
    /\ AmbientOcclusion
    /\ d \in KeyOffsets
    /\ Add(q, d) \in hist.evaluated

(* C22 as stated: hasNeighbour(q, d) is true iff a voxel exists at q and  *)
(* the relationship (q, d) was registered by a neighbour computation.      *)
C22_NeighbourOfVoxel ==
    \A q \in Cells, d \in Offsets :
        HasNeighbour(voxelMesh, q, d) <=>
            (IsVoxelAt(voxelMesh, q) /\ Registered(q, d))

(* C22, amended: hasNeighbour(q, d) is true iff the relationship (q, d)   *)
(* was registered by a neighbour computation, whether or not q holds a     *)
(* voxel; a relationship no computation produced is false though q + d     *)
(* holds a voxel (with the voxel (1,2,3) alone,                            *)
(* hasNeighbour((2,2,3), (-1,0,0)) is false).  Stated over the pairs       *)
(* hasNeighbour is true of, and over the pairs the computations made so    *)
(* far produced.                                                           *)
C22_NeighbourRegistered ==
    /\ \A pair \in voxelMesh.neighbourMap :
            /\ HasNeighbour(voxelMesh, pair[1], pair[2])
            /\ Registered(pair[1], pair[2])
    /\ \A p \in hist.evaluated, d \in KeyOffsets :
            Registered(Add(p, Negate(d)), d) =>
                HasNeighbour(voxelMesh, Add(p, Negate(d)), d)
    /\ DOMAIN voxelMesh.voxels = {<<1, 2, 3>>} =>
            ~HasNeighbour(voxelMesh, <<2, 2, 3>>, <<-1, 0, 0>>)

\* 'Voxel neighbours': the voxel (1,2,3) alone, its neighbours computed;
\* the empty cell across an edge has it as neighbour, the empty cell across
\* a face has not.
C22_Witness ==
    /\ AmbientOcclusion
    /\ DOMAIN voxelMesh.voxels = {<<1, 2, 3>>}
    /\ op.name = "getNeighbours"
    /\ op.position = <<1, 2, 3>>
    /\ ~HasNeighbour(voxelMesh, <<2, 2, 3>>, <<-1, 0, 0>>)
    /\ HasNeighbour(voxelMesh, <<2, 3, 3>>, <<-1, -1, 0>>)
    /\ ~IsVoxelAt(voxelMesh, <<2, 3, 3>>)

(* C23: with ambient occlusion enabled, once getNeighbours(p) ran on a    *)
(* mesh holding a voxel at p, hasNeighbour(p + o, -o) is true for every    *)
(* edge or corner offset o, with or without a voxel at p + o.              *)
C23_EdgeAndCornerNeighbours ==
    AmbientOcclusion =>
        \A p \in hist.evaluated, o \in KeyOffsets :
            HasNeighbour(voxelMesh, Add(p, o), Negate(o))

\* The four relationships of 'Voxel neighbours', on cells no voxel was
\* added at.
C23_Witness ==
    /\ AmbientOcclusion
    /\ op.name = "getNeighbours"
    /\ op.position = <<1, 2, 3>>
    /\ written[<<1, 2, 3>>] # <<>>
    /\ \A o \in {<<1, 1, 0>>, <<-1, -1, 0>>, <<1, -1, 1>>, <<-1, 0, 1>>} :
            /\ HasNeighbour(voxelMesh, Add(<<1, 2, 3>>, o), Negate(o))
            /\ ~IsVoxelAt(voxelMesh, Add(<<1, 2, 3>>, o))

----------------------------------------------------------------------------
\* The grids of a first voxel chunk: on every axis, of the size
\* (dimensions + 1) * voxelSize and the spacing voxelSize of that chunk.
GridsOfChunk(params) ==
    LET size == <<(params.dimensions[1] + 1) * params.voxelSize,
                  (params.dimensions[2] + 1) * params.voxelSize,
                  (params.dimensions[3] + 1) * params.voxelSize>>
    IN  /\ renderer.gridBuffers.x[VoxelMesh] = Some(GridX(size, <<params.voxelSize>>))
        /\ renderer.gridBuffers.y[VoxelMesh] = Some(GridY(size, <<params.voxelSize>>))
        /\ renderer.gridBuffers.z[VoxelMesh] = Some(GridZ(size, <<params.voxelSize>>))

(* C25 as stated: a first voxel chunk leaves the grid offset at -0.5 (-1  *)
(* in halves) on the axes of even dimension and 0 on the axes of odd       *)
(* dimension, and the grids of the size (dimensions + 1) * voxelSize.      *)
C25_OffsetOnEven ==
    IsFirstVoxelChunk(op) =>
        /\ \A i \in 1..3 :
                renderer.gridOffset[i] =
                    IF op.params.dimensions[i] % 2 = 0 THEN -1 ELSE 0
        /\ GridsOfChunk(op.params)

(* C25, amended: a first voxel chunk leaves the grid offset at -0.5 on    *)
(* the axes of odd dimension and 0 on the axes of even dimension, and the  *)
(* grids of the size (dimensions + 1) * voxelSize, with the voxelSize of   *)
(* that chunk.                                                             *)
C25_OffsetOnOdd ==
    IsFirstVoxelChunk(op) =>
        /\ \A i \in 1..3 :
                renderer.gridOffset[i] =
                    IF op.params.dimensions[i] % 2 = 1 THEN -1 ELSE 0
        /\ GridsOfChunk(op.params)

\* A first chunk of dimensions (2, 3, 4) came: the offset is on y alone,
\* the grids are of size (3, 4, 5).
C25_Witness ==
    /\ IsFirstVoxelChunk(op)
    /\ op.params.dimensions = <<2, 3, 4>>
    /\ renderer.gridOffset = <<0, -1, 0>>
    /\ renderer.gridBuffers.y[VoxelMesh] = Some(GridY(<<3, 4, 5>>, <<1>>))
    /\ renderer.blockBuffer # Undefined

(* C26: every voxel draw call of a frame binds ambient occlusion on iff   *)
(* the last chunk of the current voxel stream said that no more voxels     *)
(* are to come: off between a chunk with moreVoxelsToBuffer = true and     *)
(* the final chunk, and off again once a new stream starts with such a     *)
(* chunk.                                                                  *)
C26_AmbientOcclusionWhenComplete ==
    (op.name = "draw" /\ ActiveMeshType = VoxelMesh) =>
        \A i \in 1..Len(frame) :
            frame[i].call = "drawVoxelMesh" =>
                frame[i].u_ambientOcclusion = hist.streamDone

\* A frame drawn after the first chunk of a stream that has more to come,
\* with the block stage of an earlier, complete stream still loaded.
C26_Witness ==
    /\ op.name = "draw"
    /\ ActiveMeshType = VoxelMesh
    /\ hist.stream = 1
    /\ ~hist.streamDone
    /\ renderer.blockBuffer # Undefined
    /\ Len(MeshCalls(frame)) = 1
    /\ ~MeshCalls(frame)[1].u_ambientOcclusion

----------------------------------------------------------------------------
(* What the frame properties read. *)

\* The place of a call in a frame: scene set-up, mesh, overlays.
Phase(c) ==
    CASE c.call = "setupScene" -> 0
      [] c.call \in {"drawMesh", "drawVoxelMesh", "drawBlockMesh"} -> 1
      [] OTHER -> 2

\* The routine of a stage and the buffers it has to draw.
RoutineOf(meshType) ==
    CASE meshType = TriangleMesh -> "drawMesh"
      [] meshType = VoxelMesh -> "drawVoxelMesh"
      [] meshType = BlockMesh -> "drawBlockMesh"
      [] OTHER -> "none"

BuffersOf(meshType) ==
    CASE meshType = TriangleMesh ->
            [i \in 1..Len(renderer.materialBuffers) |-> renderer.materialBuffers[i].buffer]
      [] meshType = VoxelMesh -> Chunks(renderer.voxelBuffer)
      [] meshType = BlockMesh -> Chunks(renderer.blockBuffer)
      [] OTHER -> <<>>

(* C27: a frame is the scene set-up, then the calls of the one routine of *)
(* the active stage (none for None), on the buffers of that stage and no   *)
(* other, then the overlays (at most one grid, then the axes).             *)
C27_DrawDispatch ==
    op.name = "draw" =>
        /\ Len(frame) >= 1
        /\ \A i \in 1..Len(frame) : (Phase(frame[i]) = 0) <=> (i = 1)
        /\ \A i, j \in 1..Len(frame) : i < j => Phase(frame[i]) <= Phase(frame[j])
        /\ \A i \in 1..Len(MeshCalls(frame)) :
                MeshCalls(frame)[i].call = RoutineOf(ActiveMeshType)
        /\ DrawnBuffers(frame) = BuffersOf(ActiveMeshType)
        /\ LET overlays == SelectSeq(frame, LAMBDA c : Phase(c) = 2)
           IN  \A i \in 1..Len(overlays) :
                    /\ overlays[i].call \in {"drawGrid", "drawAxis"}
                    /\ overlays[i].call = "drawGrid" => i = 1
        /\ Cardinality({i \in 1..Len(frame) : frame[i].call = "drawAxis"}) =
                IF renderer.axesEnabled THEN 1 ELSE 0

\* The triangle stage is shown with the voxel and the block stage loaded,
\* grid and axes on: set-up, the two material buffers, the grid, the axes.
C27_Witness ==
    /\ op.name = "draw"
    /\ ActiveMeshType = TriangleMesh
    /\ ModelsAvailable = BlockMesh
    /\ renderer.voxelBuffer # Undefined
    /\ renderer.blockBuffer # Undefined
    /\ Len(frame) = 5
    /\ frame[2].call = "drawMesh"
    /\ frame[3].call = "drawMesh"
    /\ frame[4].call = "drawGrid"
    /\ frame[5].call = "drawAxis"

\* The grid calls of a frame.
GridCalls(f) == SelectSeq(f, LAMBDA c : c.call = "drawGrid")

\* The grid buffer of an axis for the active stage.
GridOfAxis(axis) ==
    CASE axis = "x" -> renderer.gridBuffers.x[ActiveMeshType]
      [] axis = "z" -> renderer.gridBuffers.z[ActiveMeshType]
      [] OTHER -> renderer.gridBuffers.y[ActiveMeshType]

\* What a frame draws of the grid when `axis` is the plane chosen: nothing
\* with the grid disabled or without a buffer for that axis and stage.
DrawsGridOf(axis) ==
    GridCalls(frame) =
        IF renderer.gridEnabled /\ GridOfAxis(axis) # Undefined
        THEN <<[call |-> "drawGrid", buffer |-> Get(GridOfAxis(axis))]>>
        ELSE <<>>

(* C29 as stated: the plane is x or z when the camera is aligned with     *)
(* exactly one of x and z and the user is not rotating, and y in every     *)
(* other case.                                                             *)
C29_GridOfOneOfXZ ==
    op.name = "draw" =>
        /\ ~threw
        /\ DrawsGridOf(IF op.camera.alignedX /\ ~op.camera.alignedZ
                            /\ ~op.camera.isUserRotating
                        THEN "x"
                        ELSE IF op.camera.alignedZ /\ ~op.camera.alignedX
                                /\ ~op.camera.isUserRotating
                             THEN "z"
                             ELSE "y")

(* C29, amended: with the grid enabled a frame draws at most one grid     *)
(* plane, from the grid buffers of the active stage: x when the camera is  *)
(* aligned with x, not aligned with y and the user is not rotating;        *)
(* otherwise z when it is aligned with z, not aligned with y and the user  *)
(* is not rotating; otherwise y.  With the grid disabled, or without a     *)
(* buffer for the chosen axis and stage, no grid is drawn and nothing is   *)
(* raised.                                                                 *)
C29_GridPlane ==
    op.name = "draw" =>
        /\ ~threw
        /\ DrawsGridOf(IF ~op.camera.alignedY /\ ~op.camera.isUserRotating
                            /\ op.camera.alignedX
                        THEN "x"
                        ELSE IF ~op.camera.alignedY /\ ~op.camera.isUserRotating
                                /\ op.camera.alignedZ
                             THEN "z"
                             ELSE "y")

\* The camera is aligned with x and with y: the voxel stage's y plane is
\* drawn, not its x plane.
C29_Witness ==
    /\ op.name = "draw"
    /\ op.camera.alignedX
    /\ op.camera.alignedY
    /\ ~op.camera.alignedZ
    /\ ~op.camera.isUserRotating
    /\ renderer.gridEnabled
    /\ ActiveMeshType = VoxelMesh
    /\ Len(GridCalls(frame)) = 1
    /\ GridCalls(frame)[1].buffer = Get(renderer.gridBuffers.y[VoxelMesh])
    /\ renderer.gridBuffers.x[VoxelMesh] # Undefined

\* Whether the grids of the three axes exist for a stage.
HasGrids(meshType) ==
    /\ renderer.gridBuffers.x[meshType] # Undefined
    /\ renderer.gridBuffers.y[meshType] # Undefined
    /\ renderer.gridBuffers.z[meshType] # Undefined

(* C28 as stated: useMesh leaves the x, y and z grids of TriangleMesh     *)
(* set, a first voxel chunk those of VoxelMesh, a first block chunk those  *)
(* of BlockMesh.                                                           *)
C28_GridsPerAxis ==
    /\ op.name = "useMesh" => HasGrids(TriangleMesh)
    /\ IsFirstVoxelChunk(op) => HasGrids(VoxelMesh)
    /\ IsFirstBlockChunk(op) => HasGrids(BlockMesh)

(* C30: a non-first voxel chunk that comes before any first voxel chunk   *)
(* raises nothing and changes nothing but the voxel size and the           *)
(* all-chunks-received flag, which it sets from the chunk: the voxel       *)
(* buffer list stays non-existent, the watermark and the active stage      *)
(* stay.  A non-first block chunk that comes before any first block chunk  *)
(* raises nothing and changes nothing at all.                              *)
C30_DroppedChunk ==
    [][/\ (IsLaterVoxelChunk(op') /\ hist.stream = 0) =>
            /\ ~threw'
            /\ renderer'.voxelBuffer = Undefined
            /\ renderer' = [renderer EXCEPT
                                !.voxelSize = op'.params.voxelSize,
                                !.allVoxelChunks = ~op'.params.moreVoxelsToBuffer]
       /\ (IsLaterBlockChunk(op') /\ renderer.blockBuffer = Undefined) =>
            /\ ~threw'
            /\ renderer' = renderer]_vars

\* With a triangle mesh loaded and no voxel stream started, a non-first
\* voxel chunk of voxel size 2 came: no list, the stage as it was, the voxel
\* size that of the chunk.
C30_Witness ==
    /\ IsLaterVoxelChunk(op)
    /\ hist.stream = 0
    /\ renderer.voxelBuffer = Undefined
    /\ op.params.voxelSize = 2
    /\ renderer.voxelSize = 2
    /\ ModelsAvailable = TriangleMesh
    /\ ActiveMeshType = TriangleMesh
    /\ ~threw

----------------------------------------------------------------------------
(* C31: what the chunk calls leave alone, and what the block stage is      *)
(* drawn with.                                                             *)

\* The fields of the voxel stage and of the block stage.
VoxelStageFields(r) ==
    [voxelBuffer |-> r.voxelBuffer, voxelSize |-> r.voxelSize,
     gridOffset |-> r.gridOffset, allVoxelChunks |-> r.allVoxelChunks]

BlockStageFields(r) ==
    [blockBuffer |-> r.blockBuffer, atlasTexture |-> r.atlasTexture,
     atlasSize |-> r.atlasSize]

\* useBlockMeshChunk leaves the voxel stage and the material buffers as
\* they were; useVoxelMeshChunk the block stage and the material buffers.
ChunkFrame ==
    /\ op'.name = "useBlockMeshChunk" =>
            /\ VoxelStageFields(renderer') = VoxelStageFields(renderer)
            /\ renderer'.materialBuffers = renderer.materialBuffers
    /\ op'.name = "useVoxelMeshChunk" =>
            /\ BlockStageFields(renderer') = BlockStageFields(renderer)
            /\ renderer'.materialBuffers = renderer.materialBuffers

\* The block calls of the frame a draw of the block stage has just made.
BlockCalls(o, r, f) ==
    IF o.name = "draw" /\ GetActiveMeshType(r) = BlockMesh
    THEN {f[i] : i \in {j \in 1..Len(f) : f[j].call = "drawBlockMesh"}}
    ELSE {}

\* The voxel size of the most recent voxel chunk and the grid offset
\* of the most recent first voxel chunk; the constructor's when there was
\* no such chunk.
VoxelSizeInForce(h) ==
    IF h.lastVoxel = Undefined THEN InitRenderer.voxelSize
    ELSE Get(h.lastVoxel).voxelSize

GridOffsetInForce(h) ==
    IF h.lastFirstVoxel = Undefined THEN InitRenderer.gridOffset
    ELSE GridOffsetOf(Get(h.lastFirstVoxel).dimensions)

\* C31 as stated: useBlockMeshChunk leaves the voxel buffer list, the voxel
\* size, the grid offset, the all-chunks flag and the material buffers
\* unchanged, useVoxelMeshChunk leaves the block buffer list, the atlas
\* data and the material buffers unchanged, and once a voxel chunk has come
\* every block buffer is drawn with the voxel size and the grid offset of
\* the most recent voxel chunk.
C31_MostRecentChunk ==
    [][/\ ChunkFrame
       /\ hist'.lastVoxel # Undefined =>
            \A c \in BlockCalls(op', renderer', frame') :
                /\ c.u_voxelSize = Get(hist'.lastVoxel).voxelSize
                /\ c.u_gridOffset = GridOffsetOf(Get(hist'.lastVoxel).dimensions)]_vars

\* C31: useBlockMeshChunk leaves the voxel buffer list, the voxel size, the
\* grid offset, the all-chunks flag and the material buffers unchanged,
\* useVoxelMeshChunk leaves the block buffer list, the atlas data and the
\* material buffers unchanged, and every block buffer is drawn with the
\* voxel size of the most recent voxel chunk and the grid offset of the
\* most recent FIRST voxel chunk (a later chunk's dimensions are not read),
\* or with the constructor's values when no such chunk has come.
C31_ChunkFrame ==
    [][/\ ChunkFrame
       /\ \A c \in BlockCalls(op', renderer', frame') :
            /\ c.u_voxelSize = VoxelSizeInForce(hist')
            /\ c.u_gridOffset = GridOffsetInForce(hist')]_vars

\* A draw of the block stage, two block chunks and a triangle mesh loaded,
\* after a voxel stream whose first chunk had dimensions (2,3,4) and voxel
\* size 1 and whose most recent chunk had dimensions (3,3,3) and voxel
\* size 2: the block buffers are drawn with voxel size 2 and the offset of
\* (2,3,4).
C31_Witness ==
    /\ op.name = "draw"
    /\ ModelsAvailable = 3
    /\ ActiveMeshType = BlockMesh
    /\ Len(Chunks(renderer.blockBuffer)) = 2
    /\ Len(Chunks(renderer.voxelBuffer)) >= 2
    /\ renderer.materialBuffers # <<>>
    /\ hist.lastVoxel # Undefined
    /\ ~Get(hist.lastVoxel).isFirstChunk
    /\ Get(hist.lastVoxel).voxelSize = 2
    /\ Get(hist.lastFirstVoxel).voxelSize = 1
    /\ GridOffsetOf(Get(hist.lastVoxel).dimensions) = <<-1, -1, -1>>
    /\ BlockCalls(op, renderer, frame) # {}
    /\ \A c \in BlockCalls(op, renderer, frame) :
            /\ c.u_voxelSize = 2
            /\ c.u_gridOffset = <<0, -1, 0>>

====
